---- MODULE Spec2Model ----
(***************************************************************************)
(* Model of the CSP solver of Oving4/Assignment4.py: the constraint graph  *)
(* (class CSP), AC-3 (inference / revise) and the recursive backtracking   *)
(* search.  Python objects that are shared by reference (the assignment    *)
(* dictionaries) live in a heap, so that copy.deepcopy and aliasing are    *)
(* visible.  A Python str is a sequence of code points; a domain is a list *)
(* of str values.                                                          *)
(***************************************************************************)
EXTENDS Integers, Sequences, FiniteSets, TLC

\* ------------------------------------------------------------------ bounds
\* Largest number of variables of the generated constraint graphs.
NumVars == 3
\* Number of calls the client makes on one CSP object.
MaxCalls == 2
\* Depth of the Python call stack at which RecursionError is raised.
MaxDepth == 8

\* ------------------------------------------------------------------ values
\* One-character strings '1', '2', '3' and the two-character string '12'.
S1 == <<49>>
S2 == <<50>>
S3 == <<51>>
S12 == <<49, 50>>
\* 'red', 'green', 'blue' (create_map_coloring_csp).
Red == <<114, 101, 100>>
Green == <<103, 114, 101, 101, 110>>
Blue == <<98, 108, 117, 101>>

\* Python's < on str: lexicographic order on code points.
RECURSIVE StrLess(_, _)
StrLess(a, b) ==
    IF b = <<>> THEN FALSE
    ELSE IF a = <<>> THEN TRUE
    ELSE IF a[1] # b[1] THEN a[1] < b[1]
    ELSE StrLess(Tail(a), Tail(b))

\* The filter functions handed to add_constraint_one_way.
FilterFunction(rel, x, y) ==
    CASE rel = "ne" -> x # y
      [] rel = "eq" -> x = y
      [] rel = "lt" -> StrLess(x, y)
      [] rel = "gt" -> StrLess(y, x)

Swapped(rel) ==
    CASE rel = "ne" -> "ne"
      [] rel = "eq" -> "eq"
      [] rel = "lt" -> "gt"
      [] rel = "gt" -> "lt"

Range(s) == {s[k] : k \in 1..Len(s)}

\* ------------------------------------------------------- graph construction
\* get_all_possible_pairs: itertools.product(a, b).
get_all_possible_pairs(a, b) == {<<x, y>> : x \in Range(a), y \in Range(b)}

\* The empty CSP object of __init__, with the domains kept by value here.
EmptyCSP == [variables |-> <<>>, domains |-> <<>>, constraints |-> <<>>]

\* add_variable(name, domain).
add_variable(csp, name, domain) ==
    [variables |-> Append(csp.variables, name),
     domains |-> (name :> domain) @@ csp.domains,
     constraints |-> (name :> [keys |-> <<>>, pairs |-> <<>>]) @@ csp.constraints]

\* add_constraint_one_way(i, j, filter_function): constraints[i][j] is the
\* product of the two domains filtered through the function.
add_constraint_one_way(csp, i, j, rel) ==
    LET old == csp.constraints[i]
        base == IF j \in Range(old.keys) THEN old.pairs[j]
                ELSE get_all_possible_pairs(csp.domains[i], csp.domains[j])
        kept == {p \in base : FilterFunction(rel, p[1], p[2])}
        keys == IF j \in Range(old.keys) THEN old.keys ELSE Append(old.keys, j)
    IN  [csp EXCEPT !.constraints[i] =
            [keys |-> keys, pairs |-> (j :> kept) @@ old.pairs]]

RECURSIVE AddVariables(_, _, _)
AddVariables(csp, names, doms) ==
    IF names = <<>> THEN csp
    ELSE AddVariables(add_variable(csp, names[1], doms[1]), Tail(names), Tail(doms))

\* A sequence of add_constraint_one_way calls <<i, j, rel>>.
RECURSIVE AddConstraints(_, _)
AddConstraints(csp, adds) ==
    IF adds = <<>> THEN csp
    ELSE AddConstraints(add_constraint_one_way(csp, adds[1][1], adds[1][2], adds[1][3]),
                        Tail(adds))

\* add_all_different_constraint(variables): every ordered pair i # j of
\* product(variables, variables), in product order.
RECURSIVE AllDifferentAdds(_, _, _)
AllDifferentAdds(names, a, b) ==
    IF a > Len(names) THEN <<>>
    ELSE IF b > Len(names) THEN AllDifferentAdds(names, a + 1, 1)
    ELSE (IF a # b THEN << <<names[a], names[b], "ne">> >> ELSE <<>>)
         \o AllDifferentAdds(names, a, b + 1)

add_all_different_constraint(csp, names) ==
    AddConstraints(csp, AllDifferentAdds(names, 1, 1))

\* create_map_coloring_csp.
MapStates == <<"WA", "NT", "Q", "NSW", "V", "SA", "T">>
MapColors == <<Red, Green, Blue>>
MapEdges == << <<"SA", "WA">>, <<"SA", "NT">>, <<"SA", "Q">>, <<"SA", "NSW">>,
               <<"SA", "V">>, <<"NT", "WA">>, <<"NT", "Q">>, <<"NSW", "Q">>,
               <<"NSW", "V">> >>

RECURSIVE TwoWayAdds(_, _)
TwoWayAdds(edges, rel) ==
    IF edges = <<>> THEN <<>>
    ELSE << <<edges[1][1], edges[1][2], rel>>, <<edges[1][2], edges[1][1], Swapped(rel)>> >>
         \o TwoWayAdds(Tail(edges), rel)

RECURSIVE OneWayAdds(_, _)
OneWayAdds(edges, rel) ==
    IF edges = <<>> THEN <<>>
    ELSE << <<edges[1][1], edges[1][2], rel>> >> \o OneWayAdds(Tail(edges), rel)

create_map_coloring_csp ==
    AddConstraints(
        AddVariables(EmptyCSP, MapStates, [k \in 1..Len(MapStates) |-> MapColors]),
        TwoWayAdds(MapEdges, "ne"))

\* ---------------------------------------------------- the generated graphs
Names == <<"A", "B", "C", "D", "E">>
DomChoices == {<<S1>>, <<S2>>, <<S1, S2>>, <<S2, S3>>, <<S1, S2, S3>>, <<S12, S3>>}
Rels == {"ne", "eq", "lt"}
ChainEdges(n) == [k \in 1..(n - 1) |-> <<Names[k], Names[k + 1]>>]
BackEdges(n) == [k \in 1..(n - 1) |-> <<Names[k + 1], Names[k]>>]

\* A client that builds a graph with add_variable and then either
\* add_all_different_constraint, or add_constraint_one_way in both
\* directions along a chain, or in one direction only (from each variable
\* to the next, or from each variable to the one before).
Builds ==
    UNION {{[n |-> n, doms |-> d, shape |-> "alldiff", rel |-> "ne"] :
                d \in [1..n -> DomChoices]} : n \in 1..NumVars}
    \cup
    UNION {{[n |-> n, doms |-> d, shape |-> s, rel |-> r] :
                d \in [1..n -> DomChoices], s \in {"twoway", "oneway", "backward"},
                r \in Rels} :
           n \in 2..NumVars}

BuildCSP(b) ==
    LET names == SubSeq(Names, 1, b.n)
        base == AddVariables(EmptyCSP, names, b.doms)
    IN  CASE b.shape = "alldiff" -> add_all_different_constraint(base, names)
          [] b.shape = "twoway" -> AddConstraints(base, TwoWayAdds(ChainEdges(b.n), b.rel))
          [] b.shape = "oneway" -> AddConstraints(base, OneWayAdds(ChainEdges(b.n), b.rel))
          [] b.shape = "backward" -> AddConstraints(base, OneWayAdds(BackEdges(b.n), b.rel))

\* The CSP objects the program starts from; lazy tells whether
\* constraints[i][j] is still the one-shot filter object of
\* add_constraint_one_way (TRUE) or was turned into a list (FALSE), as
\* create_map_coloring_csp and create_sudoku_csp do.
Graphs ==
    {[csp |-> BuildCSP(b), lazy |-> l] : b \in Builds, l \in BOOLEAN}
    \cup {[csp |-> create_map_coloring_csp, lazy |-> FALSE]}

\* ------------------------------------------------------------ Python values
\* An entry of an assignment dictionary.  raw = FALSE: a list of values
\* (items).  raw = TRUE: a bare str, items = <<the str>> (backtrack's
\* tmp[var] = val stores the value itself, not a list).
List(items) == [raw |-> FALSE, items |-> items]
Bare(val) == [raw |-> TRUE, items |-> <<val>>]

\* What iterating over the entry yields: the elements of a list, the
\* one-character strings of a str.
Items(e) ==
    IF e.raw THEN [k \in 1..Len(e.items[1]) |-> <<e.items[1][k]>>] ELSE e.items

\* len(entry).
PyLen(e) == Len(Items(e))

\* list.remove(x): drops the first occurrence of x.
RECURSIVE ListRemove(_, _)
ListRemove(items, x) ==
    IF items = <<>> THEN <<>>
    ELSE IF items[1] = x THEN Tail(items)
    ELSE <<items[1]>> \o ListRemove(Tail(items), x)

\* A copy that is no copy: the same object under a second name.
deepcopy_aliased(h, ref) == [heap |-> h, ref |-> ref]

\* copy.deepcopy(obj) of the dictionary at ref: a new heap object.
deepcopy(h, ref) == [heap |-> Append(h, h[ref]), ref |-> Len(h) + 1]

\* ------------------------------------------------------- graph queries
\* get_all_arcs: [(i, j) for i in constraints for j in constraints[i]].
RECURSIVE ArcsFrom(_, _, _)
ArcsFrom(cons, vs, k) ==
    IF vs = <<>> THEN <<>>
    ELSE IF k > Len(cons[vs[1]].keys) THEN ArcsFrom(cons, Tail(vs), 1)
    ELSE << <<vs[1], cons[vs[1]].keys[k]>> >> \o ArcsFrom(cons, vs, k + 1)

get_all_arcs(cons, vs) == ArcsFrom(cons, vs, 1)

\* get_all_neighboring_arcs(var): [(i, var) for i in constraints[var]].
get_all_neighboring_arcs(cons, var) ==
    [k \in 1..Len(cons[var].keys) |-> <<cons[var].keys[k], var>>]

\* ------------------------------------------------------------- the queue
\* queue.pop(): the newest arc instead of the oldest.
QueuePopLast(q) == [arc |-> q[Len(q)], rest |-> SubSeq(q, 1, Len(q) - 1)]

\* queue.pop(0): the oldest arc and the queue without it.
QueuePop(q) == [arc |-> q[1], rest |-> Tail(q)]

\* The for loop at the end of the while body: append [x_k, x_i] for every
\* arc (x_k, x_i) of get_all_neighboring_arcs(x_i) with x_k != x_j.
Requeue(q, cons, x_i, x_j) ==
    q \o SelectSeq(get_all_neighboring_arcs(cons, x_i), LAMBDA arc : arc[1] # x_j)

\* ------------------------------------------------------------------ revise
\* The lookup with the pair turned round: (y, x) instead of (x, y).
SupportedSwapped(x, other, pairs) == \E y \in Range(Items(other)) : <<y, x>> \in pairs

\* Does value x of variable i have a partner in the entry of variable j?
\* (the filter of constraints[i][j] by membership in product([x], assignment[j]))
Supported(x, other, pairs) == \E y \in Range(Items(other)) : <<x, y>> \in pairs

\* The for loop of revise over assignment[i], by list index k: a removal
\* shortens the list under the running iterator.  pairs is what
\* constraints[i][j] still yields; a one-shot filter object (lz) yields
\* nothing after its first traversal.
RECURSIVE ReviseLoop(_, _, _, _, _, _, _)
ReviseLoop(entry, k, other, pairs, lz, registered, revised) ==
    IF k > PyLen(entry)
    THEN [entry |-> entry, pairs |-> pairs, revised |-> revised, exc |-> "none"]
    ELSE IF ~registered
    THEN [entry |-> entry, pairs |-> pairs, revised |-> revised, exc |-> "KeyError"]
    ELSE LET x == Items(entry)[k]
             rest == IF lz THEN {} ELSE pairs
         IN  IF Supported(x, other, pairs)
             THEN ReviseLoop(entry, k + 1, other, rest, lz, registered, revised)
             ELSE IF entry.raw
             THEN [entry |-> entry, pairs |-> rest, revised |-> TRUE,
                   exc |-> "AttributeError"]
             ELSE ReviseLoop(List(ListRemove(entry.items, x)), k + 1, other, rest,
                             lz, registered, TRUE)

\* revise(assignment, i, j) on the dictionary a; returns the dictionary and
\* the constraints as it leaves them, its return value and the exception it
\* raised, if any.
revise(a, cons, lz, i, j) ==
    LET registered == j \in Range(cons[i].keys)
        r == ReviseLoop(a[i], 1, a[j], IF registered THEN cons[i].pairs[j] ELSE {},
                        lz, registered, FALSE)
    IN  [assignment |-> [a EXCEPT ![i] = r.entry],
         constraints |-> IF registered THEN [cons EXCEPT ![i].pairs[j] = r.pairs]
                         ELSE cons,
         revised |-> r.revised,
         exc |-> r.exc]

\* ------------------------------------------------- select_unassigned_variable
\* The key of min(): float("inf") (here -1) for a length below 2.
MrvKey(a, v) == IF PyLen(a[v]) < 2 THEN -1 ELSE PyLen(a[v])
KeyLess(k1, k2) == k1 # -1 /\ (k2 = -1 \/ k1 < k2)

\* min(assignment.keys(), key=...): the first key with a minimal key value.
select_unassigned_variable(a, vs) ==
    LET p == CHOOSE p \in 1..Len(vs) :
                 /\ \A q \in 1..Len(vs) : ~KeyLess(MrvKey(a, vs[q]), MrvKey(a, vs[p]))
                 /\ \A q \in 1..(p - 1) : KeyLess(MrvKey(a, vs[p]), MrvKey(a, vs[q]))
    IN  vs[p]

\* The count forgotten: failed stays as it is.
CountFailureForgotten(f) == f

\* self.failed += 1 after the for loop of backtrack.
CountFailure(f) == f + 1

\* The test at the head of backtrack: every entry has length 1.
AllDecided(a) == \A v \in DOMAIN a : PyLen(a[v]) = 1

\* ------------------------------------------------------------------- state
VARIABLES
    variables,    \* self.variables
    constraints,  \* self.constraints[i]: keys, the j in insertion order; pairs[j]
    lazy,         \* the constraints are one-shot filter objects
    backtracks,   \* self.backtracks
    failed,       \* self.failed
    heap,         \* the dictionaries; heap[1] is self.domains
    stack,        \* the active calls of backtrack, outermost first
    queue,        \* the queue of the running inference call
    target,       \* the dictionary the running inference call works on
    caller,       \* who called inference: "search", "branch" or "client"
    inferences,   \* what the last inference call returned
    ret,          \* what the last backtrack call returned: a dictionary, or 0 for None
    pc,           \* where the program is: "idle" between calls, "crashed" after an exception
    calls,        \* calls made by the client so far
    client,       \* the client's own assignment and what inference last returned on it
    result,       \* what the last call returned or raised
    pre,          \* the state at the start of the running (or last) call
    last,         \* the last call of revise: its arc and what it returned
    built         \* the CSP object as it was built

vars == <<variables, constraints, lazy, backtracks, failed, heap, stack, queue, target,
          caller, inferences, ret, pc, calls, client, result, pre, last, built>>

NoResult == [kind |-> "none", ref |-> 0, ok |-> FALSE, exc |-> "none"]
Raised(e) == [kind |-> "exc", ref |-> 0, ok |-> FALSE, exc |-> e]
Frame(ref) == [assignment |-> ref, var |-> "", idx |-> 0, tmp |-> 0]
Top == stack[Len(stack)]
Snapshot(op, ref, prev) ==
    [op |-> op, backtracks |-> backtracks, failed |-> failed, target |-> heap[ref],
     domains |-> heap[1], constraints |-> constraints, prev |-> prev]

Init ==
    \E g \in Graphs :
        /\ variables = g.csp.variables
        /\ constraints = g.csp.constraints
        /\ lazy = g.lazy
        /\ backtracks = 0
        /\ failed = 0
        /\ heap = << [v \in DOMAIN g.csp.domains |-> List(g.csp.domains[v])] >>
        /\ stack = <<>>
        /\ queue = <<>>
        /\ target = 0
        /\ caller = "none"
        /\ inferences = FALSE
        /\ ret = 0
        /\ pc = "idle"
        /\ calls = 0
        /\ client = [ref |-> 0, prev |-> "none"]
        /\ result = NoResult
        /\ pre = [op |-> "none", backtracks |-> 0, failed |-> 0,
                  target |-> [v \in DOMAIN g.csp.domains |-> List(g.csp.domains[v])],
                  domains |-> [v \in DOMAIN g.csp.domains |-> List(g.csp.domains[v])],
                  constraints |-> g.csp.constraints, prev |-> "none"]
        /\ last = [arc |-> <<>>, revised |-> FALSE]
        /\ built = g

\* backtracking_search, up to the call of inference: deep copy of
\* self.domains, queue of all arcs.
BacktrackingSearchCall ==
    /\ pc = "idle"
    /\ calls < MaxCalls
    /\ LET d == deepcopy(heap, 1)
       IN  /\ heap' = d.heap
           /\ target' = d.ref
    /\ queue' = get_all_arcs(constraints, variables)
    /\ caller' = "search"
    /\ pc' = "inference"
    /\ calls' = calls + 1
    /\ result' = NoResult
    /\ pre' = Snapshot("search", 1, "none")
    /\ UNCHANGED <<variables, constraints, lazy, backtracks, failed, stack, inferences,
                   ret, client, last, built>>

\* The client calls inference itself, on its own deep copy of the domains
\* (made before the first such call), with the queue of all arcs.
InferenceCall ==
    /\ pc = "idle"
    /\ calls < MaxCalls
    /\ LET d == IF client.ref = 0 THEN deepcopy(heap, 1)
                ELSE [heap |-> heap, ref |-> client.ref]
       IN  /\ heap' = d.heap
           /\ target' = d.ref
           /\ client' = [client EXCEPT !.ref = d.ref]
           /\ pre' = Snapshot("inference", IF client.ref = 0 THEN 1 ELSE client.ref,
                              client.prev)
    /\ queue' = get_all_arcs(constraints, variables)
    /\ caller' = "client"
    /\ pc' = "inference"
    /\ calls' = calls + 1
    /\ result' = NoResult
    /\ UNCHANGED <<variables, constraints, lazy, backtracks, failed, stack, inferences,
                   ret, last, built>>

\* One round of the while loop of inference: pop the first arc, revise it,
\* return False on an empty domain, else queue the neighbouring arcs.
InferenceLoop ==
    /\ pc = "inference"
    /\ queue # <<>>
    /\ LET pop == QueuePop(queue)
           x_i == pop.arc[1]
           x_j == pop.arc[2]
           r == revise(heap[target], constraints, lazy, x_i, x_j)
       IN  /\ heap' = [heap EXCEPT ![target] = r.assignment]
           /\ constraints' = r.constraints
           /\ last' = [arc |-> pop.arc, revised |-> r.revised]
           /\ IF r.exc # "none"
              THEN /\ pc' = "crashed"
                   /\ result' = Raised(r.exc)
                   /\ queue' = pop.rest
                   /\ UNCHANGED inferences
              ELSE IF r.revised /\ PyLen(r.assignment[x_i]) = 0
              THEN /\ pc' = "inferred"
                   /\ inferences' = FALSE
                   /\ queue' = pop.rest
                   /\ UNCHANGED result
              ELSE /\ queue' = IF r.revised THEN Requeue(pop.rest, constraints, x_i, x_j)
                                ELSE pop.rest
                   /\ UNCHANGED <<pc, inferences, result>>
    /\ UNCHANGED <<variables, lazy, backtracks, failed, stack, target, caller, ret,
                   calls, client, pre, built>>

\* The queue is empty: inference returns True.
InferenceExit ==
    /\ pc = "inference"
    /\ queue = <<>>
    /\ pc' = "inferred"
    /\ inferences' = TRUE
    /\ UNCHANGED <<variables, constraints, lazy, backtracks, failed, heap, stack, queue,
                   target, caller, ret, calls, client, result, pre, last, built>>

\* inference returns to the client.
InferenceReturned ==
    /\ pc = "inferred"
    /\ caller = "client"
    /\ pc' = "idle"
    /\ result' = [kind |-> "bool", ref |-> target, ok |-> inferences, exc |-> "none"]
    /\ client' = [client EXCEPT !.prev = IF inferences THEN "True" ELSE "False"]
    /\ UNCHANGED <<variables, constraints, lazy, backtracks, failed, heap, stack, queue,
                   target, caller, inferences, ret, calls, pre, last, built>>

\* backtracking_search after its inference call: the return value is
\* dropped and backtrack(assignment) is called.
BacktrackingSearchBacktrack ==
    /\ pc = "inferred"
    /\ caller = "search"
    /\ stack' = <<Frame(target)>>
    /\ pc' = "backtrack"
    /\ UNCHANGED <<variables, constraints, lazy, backtracks, failed, heap, queue, target,
                   caller, inferences, ret, calls, client, result, pre, last, built>>

\* The head of backtrack: return the assignment if every entry has length
\* one, else count the call and select the variable.
BacktrackBegin ==
    /\ pc = "backtrack"
    /\ IF AllDecided(heap[Top.assignment])
       THEN /\ ret' = Top.assignment
            /\ stack' = SubSeq(stack, 1, Len(stack) - 1)
            /\ pc' = "returned"
            /\ UNCHANGED backtracks
       ELSE /\ backtracks' = backtracks + 1
            /\ stack' = [stack EXCEPT ![Len(stack)].var =
                             select_unassigned_variable(heap[Top.assignment], variables),
                                      ![Len(stack)].idx = 1]
            /\ pc' = "loop"
            /\ UNCHANGED ret
    /\ UNCHANGED <<variables, constraints, lazy, failed, heap, queue, target, caller,
                   inferences, calls, client, result, pre, last, built>>

\* One pass of the for loop up to the call of inference: deep copy,
\* tmp[var] = val, queue of all arcs.
BacktrackTry ==
    /\ pc = "loop"
    /\ Top.idx <= PyLen(heap[Top.assignment][Top.var])
    /\ LET val == Items(heap[Top.assignment][Top.var])[Top.idx]
           d == deepcopy(heap, Top.assignment)
       IN  /\ heap' = [d.heap EXCEPT ![d.ref][Top.var] = Bare(val)]
           /\ target' = d.ref
           /\ stack' = [stack EXCEPT ![Len(stack)].tmp = d.ref]
    /\ queue' = get_all_arcs(constraints, variables)
    /\ caller' = "branch"
    /\ pc' = "inference"
    /\ UNCHANGED <<variables, constraints, lazy, backtracks, failed, inferences, ret,
                   calls, client, result, pre, last, built>>

\* The for loop has run out of values: count the failure and return None.
BacktrackExhausted ==
    /\ pc = "loop"
    /\ Top.idx > PyLen(heap[Top.assignment][Top.var])
    /\ failed' = CountFailure(failed)
    /\ ret' = 0
    /\ stack' = SubSeq(stack, 1, Len(stack) - 1)
    /\ pc' = "returned"
    /\ UNCHANGED <<variables, constraints, lazy, backtracks, heap, queue, target, caller,
                   inferences, calls, client, result, pre, last, built>>

\* The for loop after inference: recurse on tmp if it returned True, else
\* go on with the next value.
BacktrackInferred ==
    /\ pc = "inferred"
    /\ caller = "branch"
    /\ IF inferences
       THEN IF Len(stack) >= MaxDepth
            THEN /\ pc' = "crashed"
                 /\ result' = Raised("RecursionError")
                 /\ UNCHANGED stack
            ELSE /\ stack' = Append(stack, Frame(Top.tmp))
                 /\ pc' = "backtrack"
                 /\ UNCHANGED result
       ELSE /\ stack' = [stack EXCEPT ![Len(stack)].idx = Top.idx + 1]
            /\ pc' = "loop"
            /\ UNCHANGED result
    /\ UNCHANGED <<variables, constraints, lazy, backtracks, failed, heap, queue, target,
                   caller, inferences, ret, calls, client, pre, last, built>>

\* A call of backtrack has returned: backtracking_search hands the value to
\* the client; an outer backtrack returns it if it is true, else goes on
\* with the next value.
BacktrackResult ==
    /\ pc = "returned"
    /\ IF stack = <<>>
       THEN /\ pc' = "idle"
            /\ result' = IF ret = 0
                          THEN [kind |-> "None", ref |-> 0, ok |-> FALSE, exc |-> "none"]
                          ELSE [kind |-> "assignment", ref |-> ret, ok |-> TRUE,
                                exc |-> "none"]
            /\ UNCHANGED stack
       ELSE IF ret # 0
       THEN /\ stack' = SubSeq(stack, 1, Len(stack) - 1)
            /\ UNCHANGED <<pc, result>>
       ELSE /\ stack' = [stack EXCEPT ![Len(stack)].idx = Top.idx + 1]
            /\ pc' = "loop"
            /\ UNCHANGED result
    /\ UNCHANGED <<variables, constraints, lazy, backtracks, failed, heap, queue, target,
                   caller, inferences, ret, calls, client, pre, last, built>>

Next ==
    \/ BacktrackingSearchCall
    \/ InferenceCall
    \/ InferenceLoop
    \/ InferenceExit
    \/ InferenceReturned
    \/ BacktrackingSearchBacktrack
    \/ BacktrackBegin
    \/ BacktrackTry
    \/ BacktrackExhausted
    \/ BacktrackInferred
    \/ BacktrackResult

Spec == Init /\ [][Next]_vars

\* ------------------------------------------------------ vocabulary of the claims
Vars == DOMAIN built.csp.domains
ArcsOf(cons) == {a \in Vars \X Vars : a[2] \in Range(cons[a[1]].keys)}
BuiltArcs == ArcsOf(built.csp.constraints)
OriginalDomains == [v \in Vars |-> List(built.csp.domains[v])]
\* Every constraint was registered in both directions.
TwoWay == \A a \in BuiltArcs : <<a[2], a[1]>> \in BuiltArcs
Values == UNION {Range(built.csp.domains[v]) : v \in Vars}
\* s gives every variable one value of its domain and satisfies every arc.
IsSolution(s) ==
    /\ \A v \in Vars : s[v] \in Range(built.csp.domains[v])
    /\ \A a \in BuiltArcs : <<s[a[1]], s[a[2]]>> \in built.csp.constraints[a[1]].pairs[a[2]]
Solvable == \E s \in [Vars -> Values] : IsSolution(s)
\* constraints[i][j] are lists, as create_map_coloring_csp and
\* create_sudoku_csp leave them.
ListConstraints == ~lazy
\* A call of backtracking_search has ended, by a return or by an exception.
SearchEnded == pc \in {"idle", "crashed"} /\ pre.op = "search"
\* The dictionary d holds exactly one value per variable, and these values
\* are a solution.  (A bare str counts as holding that one value.)
HoldsSolution(d) ==
    /\ \A v \in Vars : Len(d[v].items) = 1
    /\ IsSolution([v \in Vars |-> d[v].items[1]])
\* sub is a sub-sequence of seq.
RECURSIVE IsSubSeq(_, _)
IsSubSeq(sub, seq) ==
    IF sub = <<>> THEN TRUE
    ELSE IF seq = <<>> THEN FALSE
    ELSE IF sub[1] = seq[1] THEN IsSubSeq(Tail(sub), Tail(seq))
    ELSE IsSubSeq(sub, Tail(seq))

\* C1: on a graph with constraints in both directions (kept as lists) that
\* has a solution, backtracking_search returns an assignment that holds exactly one value of
\* the original domain per variable and satisfies every registered arc.
C1_SolvableReturnsSolution ==
    (SearchEnded /\ ListConstraints /\ TwoWay /\ Solvable) =>
        (result.kind = "assignment" /\ HoldsSolution(heap[result.ref]))

\* C2: on a graph without a solution (constraints in both directions, kept
\* as lists) backtracking_search returns None, never an assignment (and so
\* never an all-singleton assignment that breaks a registered constraint).
C2_UnsolvableReturnsNone ==
    (SearchEnded /\ ListConstraints /\ TwoWay /\ ~Solvable) => result.kind = "None"

\* C3: on a well-formed graph (constraints in both directions, kept as
\* lists) no call ends in an exception: empty domains and exhausted branches
\* are reported by the failure result only, whatever str values the domains
\* hold.
C3_NeverCrashes == (ListConstraints /\ TwoWay) => pc # "crashed"

\* C4: on the graph of create_map_coloring_csp backtracking_search returns an
\* assignment with exactly one colour per region and different colours on the
\* two ends of each of the 9 edges.
C4_MapColoringSolved ==
    (SearchEnded /\ built.csp = create_map_coloring_csp) =>
        /\ result.kind = "assignment"
        /\ \A v \in Range(MapStates) :
              /\ Len(heap[result.ref][v].items) = 1
              /\ heap[result.ref][v].items[1] \in Range(MapColors)
        /\ \A k \in 1..Len(MapEdges) :
              heap[result.ref][MapEdges[k][1]].items # heap[result.ref][MapEdges[k][2]].items

\* The precondition of C5 at the start of the call: every domain of
\* self.domains is a one-element list and, for every registered arc (i, j),
\* the pair of the two values is in constraints[i][j].
CompleteAndValid(s) ==
    /\ \A v \in Vars : ~s.domains[v].raw /\ Len(s.domains[v].items) = 1
    /\ \A a \in ArcsOf(s.constraints) :
          <<s.domains[a[1]].items[1], s.domains[a[2]].items[1]>>
              \in s.constraints[a[1]].pairs[a[2]]

C6_GraphUnchanged ==
    /\ variables = built.csp.variables
    /\ heap[1] = OriginalDomains
    /\ constraints = built.csp.constraints

\* C7: a call backtrack(assignment) never changes the dictionary it was
\* given: in every step, the assignment of every call that stays active is
\* the same before and after, so every pass of the value loop starts from the
\* same domains.
C7_BacktrackKeepsAssignment ==
    [][\A k \in 1..Len(stack) :
          (k <= Len(stack') /\ stack'[k].assignment = stack[k].assignment)
              => heap'[stack[k].assignment] = heap[stack[k].assignment]]_vars

\* C7 witness: the second value of a variable is about to be tried, after the
\* copy made for the first value was pruned in another variable.
C7_Witness ==
    /\ pc = "loop"
    /\ Top.idx = 2
    /\ Top.idx <= PyLen(heap[Top.assignment][Top.var])
    /\ \E v \in Vars \ {Top.var} : heap[Top.tmp][v] # heap[Top.assignment][v]

\* The dictionaries the search is working on: the one of the running
\* inference call and the ones of the active backtrack calls.
LiveAssignments ==
    (IF pc \in {"inference", "inferred"} /\ caller # "client" THEN {target} ELSE {})
    \cup {stack[k].assignment : k \in 1..Len(stack)}

\* C8: in every state of backtracking_search (constraints in both
\* directions, kept as lists) every domain of every assignment is a
\* sub-sequence of the original domain and is non-empty, unless the inference
\* call that emptied it has just returned False; backtrack is never entered
\* with an empty domain.
C8_DomainsNonEmpty ==
    (ListConstraints /\ TwoWay /\ pre.op = "search" /\ pc # "idle") =>
        \A r \in LiveAssignments : \A v \in Vars :
            /\ IsSubSeq(heap[r][v].items, built.csp.domains[v])
            /\ \/ PyLen(heap[r][v]) > 0
               \/ pc = "inferred" /\ ~inferences /\ r = target
               \/ pc = "crashed"

\* C9: when inference over all arcs (constraints in both directions, kept
\* as lists) has returned True on an assignment, a second run over all arcs
\* on that assignment returns True and removes nothing.
C9_InferenceIdempotent ==
    (ListConstraints /\ TwoWay /\ pc = "idle" /\ pre.op = "inference"
        /\ pre.prev = "True") =>
        (result.ok /\ heap[client.ref] = pre.target)

\* C10: for every variable, get_all_neighboring_arcs(var) is exactly the set
\* of registered arcs (i, var), also when a constraint was registered in one
\* direction only.
C10_NeighboringArcsIncoming ==
    \A v \in Vars :
        Range(get_all_neighboring_arcs(constraints, v)) = {a \in BuiltArcs : a[2] = v}

\* The value x of variable i has a partner in the domain of j under
\* constraints[i][j], in the dictionary a.
HasPartner(a, i, j, x) ==
    \E y \in Range(a[j].items) : <<x, y>> \in constraints[i].pairs[j]

\* C11: one call revise(assignment, i, j) on a list domain (constraints in
\* both directions, kept as lists) removes from domain(i) exactly the values
\* without a partner in domain(j), leaves the other domains alone, and
\* returns True exactly when it removed a value.
C11_ReviseRemovesUnsupported ==
    [][(pc = "inference" /\ queue # <<>> /\ ListConstraints /\ TwoWay
            /\ ~heap[target][queue[1][1]].raw /\ ~heap[target][queue[1][2]].raw) =>
        LET i == queue[1][1]
            j == queue[1][2]
            a == heap[target]
            Partner(x) == HasPartner(a, i, j, x)
        IN  /\ heap'[target][i].items = SelectSeq(a[i].items, Partner)
            /\ \A v \in Vars \ {i} : heap'[target][v] = a[v]
            /\ last'.revised = (heap'[target][i] # a[i])]_vars

\* C12: when inference returns True (constraints in both directions, kept as
\* lists) the assignment is arc-consistent on every registered arc and no
\* domain is empty; when it returns False some domain is empty.
C12_InferenceTrueIsArcConsistent ==
    (ListConstraints /\ TwoWay /\ pc = "inferred") =>
        /\ inferences =>
              /\ \A arc \in BuiltArcs : \A x \in Range(heap[target][arc[1]].items) :
                    HasPartner(heap[target], arc[1], arc[2], x)
              /\ \A v \in Vars : PyLen(heap[target][v]) > 0
        /\ ~inferences => \E v \in Vars : PyLen(heap[target][v]) = 0

\* The arcs (k, i) for the neighbours k of i other than j, in the order of
\* get_all_neighboring_arcs(i).
NeighbourArcs(i, j) ==
    LET ks == SelectSeq(constraints[i].keys, LAMBDA k : k # j)
    IN  [n \in 1..Len(ks) |-> <<ks[n], i>>]

C14_SelectedIsUndecidedMinimum ==
    (ListConstraints /\ TwoWay /\ pc = "loop") =>
        LET a == heap[Top.assignment]
            p == CHOOSE p \in 1..Len(variables) : variables[p] = Top.var
        IN  /\ PyLen(a[Top.var]) > 1
            /\ \A q \in 1..Len(variables) :
                  PyLen(a[variables[q]]) > 1 =>
                      /\ PyLen(a[variables[q]]) >= PyLen(a[Top.var])
                      /\ (PyLen(a[variables[q]]) = PyLen(a[Top.var]) => p <= q)

\* C15: each pass of the value loop (constraints in both directions, kept as
\* lists) makes a new copy, sets the domain of the selected variable in it to
\* the one-element list [v] of the next value in domain order, leaves the
\* other domains as in the parent and starts inference over all arcs.
C15_CloneHoldsSingletonList ==
    [][(pc = "loop" /\ pc' = "inference" /\ ListConstraints /\ TwoWay) =>
        LET a == heap[Top.assignment]
            val == Items(a[Top.var])[Top.idx]
        IN  /\ target' # Top.assignment
            /\ heap'[target'][Top.var] = List(<<val>>)
            /\ \A u \in Vars \ {Top.var} : heap'[target'][u] = a[u]
            /\ queue' = get_all_arcs(constraints, variables)]_vars

\* The steps of backtrack that C16 is about.
CandidateFails == pc = "inferred" /\ caller = "branch" /\ ~inferences /\ pc' = "loop"
AllCandidatesFailed == pc = "loop" /\ pc' = "returned"
CallNotDone == pc = "backtrack" /\ pc' = "loop"

\* C16 as claimed: failed goes up by one for every candidate value whose
\* inference fails and by one more when all candidates have failed;
\* backtracks goes up by one per call that is not terminal success; no other
\* step changes them.
C16_FailedPerCandidate ==
    [][/\ failed' = failed + (IF CandidateFails \/ AllCandidatesFailed THEN 1 ELSE 0)
       /\ backtracks' = backtracks + (IF CallNotDone THEN 1 ELSE 0)]_vars

\* C16 amended: failed goes up by one exactly when a call of backtrack has
\* tried all its candidate values without success and returns None, and not
\* when the inference of a single candidate fails; backtracks goes up by one
\* per call that is not terminal success; neither counter ever decreases.
C16_FailedPerExhaustedCall ==
    [][/\ failed' = failed + (IF AllCandidatesFailed THEN 1 ELSE 0)
       /\ backtracks' = backtracks + (IF CallNotDone THEN 1 ELSE 0)]_vars

\* C16 witness: a call of backtrack has returned None after the inference of
\* its last candidate failed, and failed went up by one only.
C16_Witness ==
    /\ pc = "returned"
    /\ ret = 0
    /\ caller = "branch"
    /\ ~inferences
    /\ failed = pre.failed + 1
    /\ backtracks = pre.backtracks + 1

\* C17: backtracking_search terminates on every graph (constraints kept as
\* lists): the call stack never overflows, and no call of backtrack recurses
\* on an assignment equal to its own input.
C17_SearchTerminates ==
    ListConstraints =>
        /\ result.exc # "RecursionError"
        /\ \A k \in 2..Len(stack) :
              heap[stack[k].assignment] # heap[stack[k - 1].assignment]

====
